---- MODULE Spec2Model ----
(***************************************************************************)
(* A model of pyClarion's construct symbols (ConstructType, Symbol,        *)
(* MatchSet), activation packets (ActivationPacket) and the filtering      *)
(* propagators GatedA, FilteredT and FilteringRelay.                       *)
(*                                                                         *)
(* Python exceptions are modelled as results: every operation yields a     *)
(* record with a field err ("none" when it returns normally).              *)
(***************************************************************************)
EXTENDS Integers, Sequences, FiniteSets, TLC

VARIABLES
    symEnv,     \* Symbol test program: variable name -> Symbol._data or Unbound
    symBorn,    \* what each variable's Symbol was when it was constructed
    symLast,    \* the last Symbol operation and its outcome
    names,      \* MatchSet test program: variable name -> object reference
    objs,       \* heap of MatchSet objects: reference -> attributes
    sets,       \* heap of Python set objects: reference -> content
    msLast,     \* the last MatchSet operation and its outcome
    pkt,        \* ActivationPacket.data: key -> value (a partial function)
    pktKind,    \* the packet's class: "base" or "sub" (overrides the policy)
    pktCalls,   \* number of default_activation calls made so far
    pktLast,    \* the last packet operation and its outcome
    gInputs,    \* GatedA: the inputs mapping handed to call()
    gConf,      \* GatedA: tfm name and the base propagator's expects set
    gBaseCalls, \* GatedA: log of the arguments of base.call
    gOut,       \* GatedA: outcome of call(), or "idle" before it
    fInputs,    \* FilteredT: the inputs mapping handed to call()
    fConf,      \* FilteredT: invert_weights and the base's expects set
    fBaseCalls, \* FilteredT: log of the arguments of base.call
    fOut,       \* FilteredT: outcome of call(), or "idle" before it
    rConf,      \* FilteringRelay: its Interface (mapping and vals), if any
    rOut        \* FilteringRelay: outcome of the last operation

symVars == <<symEnv, symBorn, symLast>>
msVars == <<names, objs, sets, msLast>>
pktVars == <<pkt, pktKind, pktCalls, pktLast>>
gVars == <<gInputs, gConf, gBaseCalls, gOut>>
fVars == <<fInputs, fConf, fBaseCalls, fOut>>
rVars == <<rConf, rOut>>
vars == <<symVars, msVars, pktVars, gVars, fVars, rVars>>

(***************************************************************************)
(* ConstructType: a Flag enumeration.  A value is its integer bit mask.    *)
(***************************************************************************)
null_construct == 0
feature == 1
chunk == 2
flow_in == 4
flow_tb == 8
flow_bt == 16
flow_tt == 32
flow_bb == 64
terminus == 128
buffer == 256
subsystem == 512
agent == 1024

RECURSIVE BitAnd(_, _)
BitAnd(a, b) ==
    IF a = 0 \/ b = 0 THEN 0
    ELSE (a % 2) * (b % 2) + 2 * BitAnd(a \div 2, b \div 2)

RECURSIVE BitOr(_, _)
BitOr(a, b) ==
    IF a = 0 THEN b
    ELSE IF b = 0 THEN a
    ELSE (IF (a % 2) + (b % 2) > 0 THEN 1 ELSE 0)
         + 2 * BitOr(a \div 2, b \div 2)

node == BitOr(feature, chunk)
flow_bx == BitOr(flow_bt, flow_bb)
flow_tx == BitOr(flow_tb, flow_tt)
flow_xb == BitOr(flow_tb, flow_bb)
flow_xt == BitOr(flow_bt, flow_tt)
flow_h == BitOr(flow_bb, flow_tt)
flow_v == BitOr(flow_tb, flow_bt)
flow == BitOr(BitOr(BitOr(BitOr(flow_tb, flow_bt), flow_tt), flow_bb), flow_in)
basic_construct == BitOr(BitOr(BitOr(node, flow), terminus), buffer)
container_construct == BitOr(subsystem, agent)

\* Every bit a ConstructType value can hold.
FlagMask == BitOr(basic_construct, container_construct)

\* ConstructType[name]: lookup of a member by name.
ConstructTypeByName ==
    [n \in {"null_construct", "feature", "chunk", "flow_in", "flow_tb",
            "flow_bt", "flow_tt", "flow_bb", "terminus", "buffer",
            "subsystem", "agent", "node", "flow_bx", "flow_tx", "flow_xb",
            "flow_xt", "flow_h", "flow_v", "flow", "basic_construct",
            "container_construct"} |->
        CASE n = "null_construct" -> null_construct
          [] n = "feature" -> feature
          [] n = "chunk" -> chunk
          [] n = "flow_in" -> flow_in
          [] n = "flow_tb" -> flow_tb
          [] n = "flow_bt" -> flow_bt
          [] n = "flow_tt" -> flow_tt
          [] n = "flow_bb" -> flow_bb
          [] n = "terminus" -> terminus
          [] n = "buffer" -> buffer
          [] n = "subsystem" -> subsystem
          [] n = "agent" -> agent
          [] n = "node" -> node
          [] n = "flow_bx" -> flow_bx
          [] n = "flow_tx" -> flow_tx
          [] n = "flow_xb" -> flow_xb
          [] n = "flow_xt" -> flow_xt
          [] n = "flow_h" -> flow_h
          [] n = "flow_v" -> flow_v
          [] n = "flow" -> flow
          [] n = "basic_construct" -> basic_construct
          [] n = "container_construct" -> container_construct]

\* Flag.__contains__: `other in self` holds iff every bit of other is in self.
FlagContains(other, self) == BitAnd(other, self) = other

\* Flag.__or__ and Flag.__invert__ (the complement within the defined bits).
FlagOr(a, b) == BitOr(a, b)
FlagInvert(a) == FlagMask - BitAnd(a, FlagMask)

(***************************************************************************)
(* Symbol: an immutable (ctype, cid) pair kept in the slot _data.          *)
(***************************************************************************)
\* Longest identifier tuple the test program passes as cid.
MaxCid == 3

\* Identifier components, and the cid tuples drawn from them.
CidPools == {<<"a", "b", "c", "d", "e">>, <<"b", "a", "d", "c", "e">>}
Cids == {SubSeq(p, 1, n) : p \in CidPools, n \in 0..MaxCid}

\* Arguments given for ctype: a ConstructType member, a str, an int, or an
\* object of another type (kind "other", e.g. a float).
CtypeArg(kind, name, num) == [kind |-> kind, name |-> name, num |-> num]
CtypeArgs ==
    {CtypeArg("member", "", c) :
        c \in {null_construct, feature, chunk, node, flow, terminus}}
    \cup {CtypeArg("str", n, 0) : n \in {"feature", "chunk", "bogus"}}
    \cup {CtypeArg("int", "", i) : i \in {feature, FlagMask + 1}}
    \cup {CtypeArg("other", "", 0)}

\* The content of a variable of the test program: a Symbol's _data, or nothing.
Unbound == [bound |-> FALSE, ctype |-> 0, cid |-> <<>>]
SymData(ctype, cid) == [bound |-> TRUE, ctype |-> ctype, cid |-> cid]

\* A faulty __init__ that omits the feature arity check.
Symbol_init_unchecked(arg, cid) ==
    IF arg.kind = "str"
    THEN IF arg.name \in DOMAIN ConstructTypeByName
         THEN [err |-> "none", data |-> SymData(ConstructTypeByName[arg.name], cid)]
         ELSE [err |-> "KeyError", data |-> Unbound]
    ELSE IF arg.kind \in {"int", "member"} /\ arg.num \in 0..FlagMask
    THEN [err |-> "none", data |-> SymData(arg.num, cid)]
    ELSE [err |-> "TypeError", data |-> Unbound]

\* Symbol.__init__: the conversion of ctype, the feature arity check and the
\* assignment of _data.
Symbol_init(arg, cid) ==
    LET conv ==
            IF arg.kind = "str"
            THEN IF arg.name \in DOMAIN ConstructTypeByName
                 THEN [err |-> "none", ctype |-> ConstructTypeByName[arg.name]]
                 ELSE [err |-> "KeyError", ctype |-> 0]
            ELSE IF arg.kind = "int"
            THEN IF arg.num \in 0..FlagMask
                 THEN [err |-> "none", ctype |-> arg.num]
                 ELSE [err |-> "ValueError", ctype |-> 0]
            ELSE IF arg.kind = "member"
            THEN [err |-> "none", ctype |-> arg.num]
            ELSE [err |-> "TypeError", ctype |-> 0]
    IN  IF conv.err # "none"
        THEN [err |-> conv.err, data |-> Unbound]
        ELSE IF FlagContains(conv.ctype, feature) /\ Len(cid) < 2
        THEN [err |-> "TypeError", data |-> Unbound]
        ELSE [err |-> "none", data |-> SymData(conv.ctype, cid)]

\* A faulty __setattr__ that lets the slot _data be rebound.
Symbol_setattr_rebinds(data, name, value) ==
    IF name = "_data"
    THEN [err |-> "none", data |-> value]
    ELSE [err |-> "AttributeError", data |-> data]

\* Symbol.__setattr__: always raises.
Symbol_setattr(data, name, value) ==
    [err |-> "AttributeError", data |-> data]

\* hash(self._data): Python's tuple hash is a function of the components'
\* hashes; here a polynomial over the ctype value and the components.
IdHash(id) ==
    CASE id = "a" -> 1 [] id = "b" -> 2 [] id = "c" -> 3 [] id = "d" -> 4
      [] OTHER -> 5

RECURSIVE TupleHash(_)
TupleHash(t) ==
    IF t = <<>> THEN 7
    ELSE (31 * TupleHash(SubSeq(t, 1, Len(t) - 1)) + IdHash(t[Len(t)])) % 65521

Symbol_hash(data) == (31 * TupleHash(data.cid) + data.ctype) % 65521

\* Symbol.__eq__ between two Symbols.
Symbol_eq(data, other) == <<data.ctype, data.cid>> = <<other.ctype, other.cid>>

\* Symbol.dim and Symbol.val.
Symbol_dim(data) ==
    IF FlagContains(data.ctype, feature)
    THEN IF Len(data.cid) >= 1
         THEN [err |-> "none", ret |-> data.cid[1]]
         ELSE [err |-> "IndexError", ret |-> "None"]
    ELSE [err |-> "TypeError", ret |-> "None"]

Symbol_val(data) ==
    IF FlagContains(data.ctype, feature)
    THEN IF Len(data.cid) >= 2
         THEN [err |-> "none", ret |-> data.cid[2]]
         ELSE [err |-> "IndexError", ret |-> "None"]
    ELSE [err |-> "TypeError", ret |-> "None"]

\* The factory feature(dim, val).
feature_factory(dim, val) ==
    Symbol_init(CtypeArg("member", "", feature), <<dim, val>>)

(***************************************************************************)
(* The Symbol test program: two variables, each bound once to a Symbol,    *)
(* then read, compared and assigned to.                                    *)
(***************************************************************************)
SymNames == {"s", "t"}
SetattrNames == {"_data", "ctype", "cid"}
NoArg == CtypeArg("none", "", 0)

SymOp(op, target, arg, cid, attr, err, ret) ==
    [op |-> op, target |-> target, arg |-> arg, cid |-> cid, attr |-> attr,
     err |-> err, ret |-> ret]

SymInit ==
    /\ symEnv = [n \in SymNames |-> Unbound]
    /\ symBorn = [n \in SymNames |-> Unbound]
    /\ symLast = SymOp("start", "s", NoArg, <<>>, "", "none", "None")

\* n = Symbol(arg, *cid)
SymNew(n, arg, cid) ==
    /\ ~symEnv[n].bound
    /\ LET r == Symbol_init(arg, cid)
       IN  /\ symEnv' = [symEnv EXCEPT ![n] = r.data]
           /\ symBorn' = [symBorn EXCEPT ![n] = r.data]
           /\ symLast' = SymOp("init", n, arg, cid, "", r.err, "None")
    /\ UNCHANGED <<msVars, pktVars, gVars, fVars, rVars>>

\* n = feature(dim, val)
SymFeature(n, dim, val) ==
    /\ ~symEnv[n].bound
    /\ LET r == feature_factory(dim, val)
       IN  /\ symEnv' = [symEnv EXCEPT ![n] = r.data]
           /\ symBorn' = [symBorn EXCEPT ![n] = r.data]
           /\ symLast' = SymOp("feature", n, CtypeArg("member", "", feature),
                               <<dim, val>>, "", r.err, "None")
    /\ UNCHANGED <<msVars, pktVars, gVars, fVars, rVars>>

\* n.dim
SymDim(n) ==
    /\ symEnv[n].bound
    /\ LET r == Symbol_dim(symEnv[n])
       IN  symLast' = SymOp("dim", n, NoArg, <<>>, "", r.err, r.ret)
    /\ UNCHANGED <<symEnv, symBorn>>
    /\ UNCHANGED <<msVars, pktVars, gVars, fVars, rVars>>

\* n.val
SymVal(n) ==
    /\ symEnv[n].bound
    /\ LET r == Symbol_val(symEnv[n])
       IN  symLast' = SymOp("val", n, NoArg, <<>>, "", r.err, r.ret)
    /\ UNCHANGED <<symEnv, symBorn>>
    /\ UNCHANGED <<msVars, pktVars, gVars, fVars, rVars>>

\* n.attr = <the Symbol data of variable m>
SymSetattr(n, attr, m) ==
    /\ symEnv[n].bound /\ symEnv[m].bound
    /\ LET r == Symbol_setattr(symEnv[n], attr, symEnv[m])
       IN  /\ symEnv' = [symEnv EXCEPT ![n] = r.data]
           /\ symLast' = SymOp("setattr", n, NoArg, symEnv[m].cid, attr,
                               r.err, "None")
    /\ UNCHANGED symBorn
    /\ UNCHANGED <<msVars, pktVars, gVars, fVars, rVars>>

SymNext ==
    \/ \E n \in SymNames, arg \in CtypeArgs, cid \in Cids : SymNew(n, arg, cid)
    \/ \E n \in SymNames, dim, val \in {"a", "b"} : SymFeature(n, dim, val)
    \/ \E n \in SymNames : SymDim(n)
    \/ \E n \in SymNames : SymVal(n)
    \/ \E n, m \in SymNames, attr \in SetattrNames : SymSetattr(n, attr, m)

(***************************************************************************)
(* MatchSet: a mutable object with a ctype mask and two Python sets.       *)
(* Objects and sets live in heaps (sequences indexed by reference), so     *)
(* that sharing of a set between two MatchSets is expressible.             *)
(***************************************************************************)
\* Optional arguments: None, or a value.
None == [some |-> FALSE]
Some(v) == [some |-> TRUE, v |-> v]

\* The Symbols used as keys of membership tests and as exact members.
KeyFeature == feature_factory("a", "b").data
KeyChunk == Symbol_init(CtypeArg("member", "", chunk), <<"a">>).data
KeyNode == Symbol_init(CtypeArg("member", "", node), <<"a">>).data
KeyNull == Symbol_init(CtypeArg("member", "", null_construct), <<"a", "b">>).data
MsKeys == {KeyFeature, KeyChunk, KeyNode, KeyNull}

\* The predicates (callables) a MatchSet may hold, and their application.
Predicates == {"has_val", "is_chunky"}
PredApply(p, key) ==
    IF p = "has_val" THEN Len(key.cid) >= 2
    ELSE FlagContains(chunk, key.ctype)

Heap(o, s) == [objs |-> o, sets |-> s]

\* A faulty add that assigns the mask instead of or-ing into it.
MatchSet_add_overwrites(H, self, ctype, constructs, predicates) ==
    LET o == H.objs[self]
        o1 == IF ctype.some THEN [o EXCEPT !.ctype = ctype.v] ELSE o
        s1 == IF constructs.some
              THEN [H.sets EXCEPT ![o.constructs] = constructs.v]
              ELSE H.sets
        s2 == IF predicates.some
              THEN [s1 EXCEPT ![o.predicates] = predicates.v]
              ELSE s1
    IN  Heap([H.objs EXCEPT ![self] = o1], s2)

\* MatchSet.add
MatchSet_add(H, self, ctype, constructs, predicates) ==
    LET o == H.objs[self]
        o1 == IF ctype.some
              THEN [o EXCEPT !.ctype = FlagOr(@, ctype.v)]
              ELSE o
        s1 == IF constructs.some
              THEN [H.sets EXCEPT ![o.constructs] = @ \cup constructs.v]
              ELSE H.sets
        s2 == IF predicates.some
              THEN [s1 EXCEPT ![o.predicates] = @ \cup predicates.v]
              ELSE s1
    IN  Heap([H.objs EXCEPT ![self] = o1], s2)

\* MatchSet.remove
MatchSet_remove(H, self, ctype, constructs, predicates) ==
    LET o == H.objs[self]
        o1 == IF ctype.some
              THEN [o EXCEPT !.ctype = BitAnd(@, FlagInvert(ctype.v))]
              ELSE o
        s1 == IF constructs.some
              THEN [H.sets EXCEPT ![o.constructs] = @ \ constructs.v]
              ELSE H.sets
        s2 == IF predicates.some
              THEN [s1 EXCEPT ![o.predicates] = @ \ predicates.v]
              ELSE s1
    IN  Heap([H.objs EXCEPT ![self] = o1], s2)

\* MatchSet.__init__: a new object with two new empty sets, then add().
MatchSet_init(H, ctype, constructs, predicates) ==
    LET cref == Len(H.sets) + 1
        pref == Len(H.sets) + 2
        self == Len(H.objs) + 1
        H1 == Heap(Append(H.objs, [ctype |-> null_construct,
                                   constructs |-> cref, predicates |-> pref]),
                   H.sets \o <<{}, {}>>)
    IN  [heap |-> MatchSet_add(H1, self, ctype, constructs, predicates),
         ref |-> self]

\* MatchSet.__contains__: the three criteria, accumulated with |=.
RECURSIVE AnyPredicate(_, _, _)
AnyPredicate(val, preds, key) ==
    IF preds = {} THEN val
    ELSE LET p == CHOOSE q \in preds : TRUE
         IN  AnyPredicate(val \/ PredApply(p, key), preds \ {p}, key)

\* A faulty __contains__ that requires all three criteria at once.
MatchSet_contains_all(H, self, key) ==
    LET o == H.objs[self]
    IN  /\ FlagContains(key.ctype, o.ctype)
        /\ key \in H.sets[o.constructs]
        /\ \E p \in H.sets[o.predicates] : PredApply(p, key)

MatchSet_contains(H, self, key) ==
    LET o == H.objs[self]
        val0 == FALSE
        val1 == val0 \/ FlagContains(key.ctype, o.ctype)
        val2 == val1 \/ (key \in H.sets[o.constructs])
    IN  AnyPredicate(val2, H.sets[o.predicates], key)

\* A faulty __copy__ that hands its own sets to the new object.
MatchSet_copy_shares(H, self) ==
    [heap |-> Heap(Append(H.objs, H.objs[self]), H.sets),
     ref |-> Len(H.objs) + 1]

\* MatchSet.__copy__
MatchSet_copy(H, self) ==
    LET o == H.objs[self]
    IN  MatchSet_init(H, Some(o.ctype), Some(H.sets[o.constructs]),
                      Some(H.sets[o.predicates]))

\* What a method returns: a reference, or Python's None.
RetNone == [kind |-> "None", ref |-> 0]
RetObj(r) == [kind |-> "obj", ref |-> r]
Undefined == [kind |-> "undef", ref |-> 0]

\* MatchSet.__ior__ and MatchSet.__isub__: no return statement.
MatchSet_ior(H, self, other) ==
    LET o == H.objs[other]
    IN  [heap |-> MatchSet_add(H, self, Some(o.ctype),
                               Some(H.sets[o.constructs]),
                               Some(H.sets[o.predicates])),
         ret |-> RetNone]

MatchSet_isub(H, self, other) ==
    LET o == H.objs[other]
    IN  [heap |-> MatchSet_remove(H, self, Some(o.ctype),
                                  Some(H.sets[o.constructs]),
                                  Some(H.sets[o.predicates])),
         ret |-> RetNone]

(***************************************************************************)
(* The MatchSet test program: m and other are constructed at the start;    *)
(* c is bound by c = copy(m).  The program adds and removes criteria,      *)
(* tests membership and applies the augmented assignments |= and -=.       *)
(***************************************************************************)
MsNames == {"m", "other", "c"}

\* Argument triples (ctype, constructs, predicates) passed to add and remove.
CriteriaArgs ==
    {<<None, None, None>>,
     <<Some(feature), None, None>>,
     <<Some(chunk), None, None>>,
     <<None, Some({KeyNode}), None>>,
     <<None, None, Some({"has_val"})>>,
     <<Some(node), Some({KeyNode}), Some(Predicates)>>}

\* Argument triples the operand `other` is constructed with.
OtherArgs ==
    {<<Some(chunk), None, Some({"is_chunky"})>>,
     <<Some(terminus), Some({KeyNode}), Some({"has_val"})>>}

MsOp(op, target, key, ret, err) ==
    [op |-> op, target |-> target, key |-> key, ret |-> ret, err |-> err]

MsInit ==
    \E a \in OtherArgs :
        LET r1 == MatchSet_init(Heap(<<>>, <<>>), None, None, None)
            r2 == MatchSet_init(r1.heap, a[1], a[2], a[3])
        IN  /\ objs = r2.heap.objs
            /\ sets = r2.heap.sets
            /\ names = [n \in MsNames |->
                           IF n = "m" THEN RetObj(r1.ref)
                           ELSE IF n = "other" THEN RetObj(r2.ref)
                           ELSE Undefined]
            /\ msLast = MsOp("start", "m", Unbound, FALSE, "none")

\* n.add(ctype, constructs, predicates)
MsAdd(n, a) ==
    /\ names[n].kind = "obj"
    /\ LET H == MatchSet_add(Heap(objs, sets), names[n].ref, a[1], a[2], a[3])
       IN  /\ objs' = H.objs
           /\ sets' = H.sets
    /\ msLast' = MsOp("add", n, Unbound, FALSE, "none")
    /\ UNCHANGED names
    /\ UNCHANGED <<symVars, pktVars, gVars, fVars, rVars>>

\* n.remove(ctype, constructs, predicates)
MsRemove(n, a) ==
    /\ names[n].kind = "obj"
    /\ LET H == MatchSet_remove(Heap(objs, sets), names[n].ref, a[1], a[2], a[3])
       IN  /\ objs' = H.objs
           /\ sets' = H.sets
    /\ msLast' = MsOp("remove", n, Unbound, FALSE, "none")
    /\ UNCHANGED names
    /\ UNCHANGED <<symVars, pktVars, gVars, fVars, rVars>>

\* key in n
MsContains(n, key) ==
    /\ names[n].kind # "undef"
    /\ msLast' =
          IF names[n].kind = "obj"
          THEN MsOp("contains", n, key,
                    MatchSet_contains(Heap(objs, sets), names[n].ref, key),
                    "none")
          ELSE MsOp("contains", n, key, FALSE, "TypeError")
    /\ UNCHANGED <<names, objs, sets>>
    /\ UNCHANGED <<symVars, pktVars, gVars, fVars, rVars>>

\* c = copy.copy(m)
MsCopy ==
    /\ names["c"].kind = "undef"
    /\ names["m"].kind = "obj"
    /\ LET r == MatchSet_copy(Heap(objs, sets), names["m"].ref)
       IN  /\ objs' = r.heap.objs
           /\ sets' = r.heap.sets
           /\ names' = [names EXCEPT !["c"] = RetObj(r.ref)]
    /\ msLast' = MsOp("copy", "c", Unbound, FALSE, "none")
    /\ UNCHANGED <<symVars, pktVars, gVars, fVars, rVars>>

\* m |= other: the name m is rebound to what __ior__ returns.
MsIor ==
    /\ names["m"].kind = "obj"
    /\ names["other"].kind = "obj"
    /\ LET r == MatchSet_ior(Heap(objs, sets), names["m"].ref, names["other"].ref)
       IN  /\ objs' = r.heap.objs
           /\ sets' = r.heap.sets
           /\ names' = [names EXCEPT !["m"] = r.ret]
    /\ msLast' = MsOp("ior", "m", Unbound, FALSE, "none")
    /\ UNCHANGED <<symVars, pktVars, gVars, fVars, rVars>>

\* m -= other: the name m is rebound to what __isub__ returns.
MsIsub ==
    /\ names["m"].kind = "obj"
    /\ names["other"].kind = "obj"
    /\ LET r == MatchSet_isub(Heap(objs, sets), names["m"].ref, names["other"].ref)
       IN  /\ objs' = r.heap.objs
           /\ sets' = r.heap.sets
           /\ names' = [names EXCEPT !["m"] = r.ret]
    /\ msLast' = MsOp("isub", "m", Unbound, FALSE, "none")
    /\ UNCHANGED <<symVars, pktVars, gVars, fVars, rVars>>

MsNext ==
    \/ \E n \in {"m", "c"}, a \in CriteriaArgs : MsAdd(n, a)
    \/ \E n \in {"m", "c"}, a \in CriteriaArgs : MsRemove(n, a)
    \/ \E n \in {"m", "c"}, key \in MsKeys : MsContains(n, key)
    \/ MsCopy
    \/ MsIor
    \/ MsIsub

(***************************************************************************)
(* ActivationPacket: a UserDict whose __missing__ asks default_activation. *)
(* A packet is its data: a function from the keys present to values.       *)
(***************************************************************************)
\* Largest activation value (and largest default) of the test program.
MaxVal == 2
\* Bound on the number of default_activation calls in one run.
MaxCalls == 3

PktKeys == {"n1", "n2", "n3"}
PktVals == 0..MaxVal
EmptyData == [k \in {} |-> 0]
PktPut(data, key, value) ==
    [k \in DOMAIN data \cup {key} |-> IF k = key THEN value ELSE data[k]]
PktDrop(data, key) == [k \in DOMAIN data \ {key} |-> data[k]]

\* A faulty base policy that returns a value instead of raising.
default_activation_zero(kind, key, v) ==
    IF kind = "base" THEN [err |-> "none", ret |-> 0]
    ELSE [err |-> "none", ret |-> v]

\* ActivationPacket.default_activation: the base class raises KeyError; a
\* subclass ("sub") overrides it and returns a value v of its choosing.
default_activation(kind, key, v) ==
    IF kind = "base" THEN [err |-> "KeyError", ret |-> 0]
    ELSE [err |-> "none", ret |-> v]

PktResult(err, ret, data, calls) ==
    [err |-> err, ret |-> ret, data |-> data, calls |-> calls]

\* A faulty __missing__ that returns the default without recording it.
ActivationPacket_missing_forgets(data, kind, key, v) ==
    LET r == default_activation(kind, key, v)
    IN  PktResult(r.err, r.ret, data, 1)

\* ActivationPacket.__missing__: self[key] = value = default_activation(key)
ActivationPacket_missing(data, kind, key, v) ==
    LET r == default_activation(kind, key, v)
    IN  IF r.err # "none"
        THEN PktResult(r.err, 0, data, 1)
        ELSE PktResult("none", r.ret, PktPut(data, key, r.ret), 1)

\* UserDict.__getitem__, which ActivationPacket inherits: the stored value,
\* or whatever __missing__ does.
ActivationPacket_getitem(data, kind, key, v) ==
    IF key \in DOMAIN data
    THEN PktResult("none", data[key], data, 0)
    ELSE ActivationPacket_missing(data, kind, key, v)

PktOp(op, key, err, ret, has, pre, callsBefore) ==
    [op |-> op, key |-> key, err |-> err, ret |-> ret, has |-> has,
     pre |-> pre, callsBefore |-> callsBefore]

\* ActivationPacket(kvpairs), of the base class or of a subclass.
PktInit ==
    /\ pktKind \in {"base", "sub"}
    /\ \E D \in SUBSET {"n1", "n2"} : \E v \in PktVals : pkt = [k \in D |-> v]
    /\ pktCalls = 0
    /\ pktLast = PktOp("start", "n1", "none", 0, FALSE, EmptyData, 0)

PktFrame == UNCHANGED <<symVars, msVars, gVars, fVars, rVars>>

\* p[key], where v is what a subclass's policy would return for this call
PktGet(key, v) ==
    /\ key \in DOMAIN pkt \/ pktCalls < MaxCalls
    /\ LET r == ActivationPacket_getitem(pkt, pktKind, key, v)
       IN  /\ pkt' = r.data
           /\ pktCalls' = pktCalls + r.calls
           /\ pktLast' = PktOp("getitem", key, r.err, r.ret, FALSE, pkt, pktCalls)
    /\ UNCHANGED pktKind
    /\ PktFrame

\* p[key] = value
PktSet(key, value) ==
    /\ pkt' = PktPut(pkt, key, value)
    /\ pktLast' = PktOp("setitem", key, "none", value, FALSE, pkt, pktCalls)
    /\ UNCHANGED <<pktKind, pktCalls>>
    /\ PktFrame

\* del p[key]
PktDel(key) ==
    /\ pkt' = IF key \in DOMAIN pkt THEN PktDrop(pkt, key) ELSE pkt
    /\ pktLast' = PktOp("delitem", key,
                        IF key \in DOMAIN pkt THEN "none" ELSE "KeyError",
                        0, FALSE, pkt, pktCalls)
    /\ UNCHANGED <<pktKind, pktCalls>>
    /\ PktFrame

\* key in p
PktContains(key) ==
    /\ pktLast' = PktOp("contains", key, "none", 0, key \in DOMAIN pkt,
                        pkt, pktCalls)
    /\ UNCHANGED <<pkt, pktKind, pktCalls>>
    /\ PktFrame

PktNext ==
    \/ \E key \in PktKeys, v \in PktVals : PktGet(key, v)
    \/ \E key \in PktKeys, v \in PktVals : PktSet(key, v)
    \/ \E key \in PktKeys : PktDel(key)
    \/ \E key \in PktKeys : PktContains(key)

(***************************************************************************)
(* GatedA: gates the output of a base activation propagator.               *)
(* Strengths and weights are fixed-point numbers: the integer v stands for *)
(* v / Den, and a product of two of them for v / (Den * Den).              *)
(***************************************************************************)
\* Denominator of the fixed-point strengths of the test inputs.
Den == 2

\* The constructs that may appear as keys of inputs, and the gate among them.
GSources == {"gate", "src1", "src2"}
GGate == "gate"
\* base.client, the construct the wrapped propagator serves.
GClient == "client"
GNodes == {"x", "y"}

\* An ActivationPacket among the inputs: its class and its data.
Packet(kind, data) == [kind |-> kind, data |-> data]

\* utils.funcs.eye and utils.funcs.inv, the transforms GatedA.tfms names.
eye(w) == w
inv(w) == Den - w
GatedA_tfms(name, w) == IF name = "eye" THEN eye(w) ELSE inv(w)

\* utils.funcs.scale_strengths: every strength multiplied by the weight.
scale_strengths(weight, strengths) ==
    [n \in DOMAIN strengths |-> weight * strengths[n]]

\* base.expects(construct) of the wrapped propagator.
base_expects(conf, src) == src \in conf.expects

\* base.call(inputs) of the wrapped propagator: a pure function of the
\* mapping it is given; here the sum, per node, of the strengths.
RECURSIVE SumOver(_, _, _)
SumOver(inputs, srcs, n) ==
    IF srcs = {} THEN 0
    ELSE LET src == CHOOSE x \in srcs : TRUE
         IN  (IF n \in DOMAIN inputs[src].data THEN inputs[src].data[n] ELSE 0)
             + SumOver(inputs, srcs \ {src}, n)

base_call(inputs) ==
    [n \in UNION {DOMAIN inputs[src].data : src \in DOMAIN inputs} |->
        SumOver(inputs, DOMAIN inputs, n)]

GResult(err, out, inputs, calls) ==
    [err |-> err, out |-> out, inputs |-> inputs, calls |-> calls]

\* A faulty call that hands the base every input, expected or not.
GatedA_call_unfiltered(inputs, conf, v) ==
    IF GGate \notin DOMAIN inputs
    THEN GResult("KeyError", EmptyData, inputs, <<>>)
    ELSE LET r == ActivationPacket_getitem(inputs[GGate].data,
                                           inputs[GGate].kind, GClient, v)
         IN  IF r.err # "none"
             THEN GResult(r.err, EmptyData, inputs, <<>>)
             ELSE GResult("none",
                          scale_strengths(GatedA_tfms(conf.tfm, r.ret),
                                          base_call(inputs)),
                          inputs, <<inputs>>)

\* GatedA.call: v is what the policy of the gate's packet would return if
\* the packet is of a subclass and holds no entry for the client.
GatedA_call(inputs, conf, v) ==
    IF GGate \notin DOMAIN inputs
    THEN GResult("KeyError", EmptyData, inputs, <<>>)
    ELSE LET r == ActivationPacket_getitem(inputs[GGate].data,
                                           inputs[GGate].kind, GClient, v)
             inputs1 == [inputs EXCEPT ![GGate].data = r.data]
         IN  IF r.err # "none"
             THEN GResult(r.err, EmptyData, inputs1, <<>>)
             ELSE LET weight == r.ret
                      _inputs == [src \in {x \in DOMAIN inputs1 :
                                              base_expects(conf, x)} |->
                                     inputs1[src]]
                      base_strengths == base_call(_inputs)
                      output == scale_strengths(GatedA_tfms(conf.tfm, weight),
                                                base_strengths)
                  IN  GResult("none", output, inputs1, <<_inputs>>)

\* Packets of the test inputs.
GatePackets ==
    {Packet(kind, data) :
        kind \in {"base", "sub"},
        data \in {EmptyData} \cup {[c \in {GClient} |-> w] : w \in 0..Den}}
SourcePackets ==
    {Packet("base", [n \in D |-> a]) :
        D \in {{"x"}, GNodes}, a \in 1..Den}

\* The outcome of the last call, and the inputs as they were when it began.
GOutcome(state, err, out, pre) ==
    [state |-> state, err |-> err, out |-> out, pre |-> pre]

\* A GatedA around some base, and an inputs mapping offered by the driver.
GInit ==
    /\ \E tfm \in {"eye", "inv"}, e \in SUBSET GSources :
           gConf = [tfm |-> tfm, expects |-> e]
    /\ \E K \in SUBSET GSources :
           \E g \in GatePackets, p \in SourcePackets, q \in SourcePackets :
               gInputs = [src \in K |->
                             IF src = GGate THEN g
                             ELSE IF src = "src1" THEN p ELSE q]
    /\ gBaseCalls = <<>>
    /\ gOut = GOutcome("idle", "none", EmptyData, EmptyData)

\* output = gated.call(inputs)
GCall(v) ==
    /\ LET r == GatedA_call(gInputs, gConf, v)
       IN  /\ gInputs' = r.inputs
           /\ gBaseCalls' = r.calls
           /\ gOut' = GOutcome("done", r.err, r.out, gInputs)
    /\ UNCHANGED gConf
    /\ UNCHANGED <<symVars, msVars, pktVars, fVars, rVars>>

GNext == \E v \in 0..Den : GCall(v)

(***************************************************************************)
(* FilteredT: filters the input to a base terminus propagator.             *)
(***************************************************************************)
\* The constructs that may appear as keys of inputs, and the filter among them.
FSources == {"filter", "src1", "src2"}
FFilter == "filter"

\* utils.funcs.invert_strengths: a new mapping holding 1 - s for every s.
invert_strengths(strengths) ==
    [n \in DOMAIN strengths |-> Den - strengths[n]]

\* utils.funcs.multiplicative_filter: every strength multiplied by the
\* weight held for its key, or by fdefault where the weights hold none.
multiplicative_filter(weights, strengths, fdefault) ==
    [n \in DOMAIN strengths |->
        strengths[n] * (IF n \in DOMAIN weights THEN weights[n] ELSE fdefault)]

FResult(err, out, inputs, calls) ==
    [err |-> err, out |-> out, inputs |-> inputs, calls |-> calls]

\* A faulty call that gives the two fill values the wrong way round.
FilteredT_call_swapped(inputs, conf) ==
    IF FFilter \notin DOMAIN inputs
    THEN FResult("KeyError", EmptyData, inputs, <<>>)
    ELSE LET weights == IF conf.invert_weights
                        THEN invert_strengths(inputs[FFilter].data)
                        ELSE inputs[FFilter].data
             fdefault == IF conf.invert_weights THEN 0 ELSE Den
             filtered_inputs ==
                 [src \in {x \in DOMAIN inputs : base_expects(conf, x)} |->
                     Packet("dict", multiplicative_filter(
                                        weights, inputs[src].data, fdefault))]
         IN  FResult("none", base_call(filtered_inputs), inputs,
                     <<filtered_inputs>>)

\* FilteredT.call.  The fill values 1.0 and 0.0 are Den and 0 in fixed point;
\* the filtered mappings are plain dicts (class "dict").
FilteredT_call(inputs, conf) ==
    IF FFilter \notin DOMAIN inputs
    THEN FResult("KeyError", EmptyData, inputs, <<>>)
    ELSE LET weights == IF conf.invert_weights
                        THEN invert_strengths(inputs[FFilter].data)
                        ELSE inputs[FFilter].data
             fdefault == IF conf.invert_weights THEN Den ELSE 0
             filtered_inputs ==
                 [src \in {x \in DOMAIN inputs : base_expects(conf, x)} |->
                     Packet("dict", multiplicative_filter(
                                        weights, inputs[src].data, fdefault))]
             output == base_call(filtered_inputs)
         IN  FResult("none", output, inputs, <<filtered_inputs>>)

\* Weight packets of the test inputs: of the base class or of a subclass
\* with a default policy, holding a weight for no node or for one.
FilterPackets ==
    {Packet(kind, [n \in D |-> w]) :
        kind \in {"base", "sub"}, D \in {{}, {"x"}, {"y"}}, w \in 0..Den}

\* A FilteredT around some base, and an inputs mapping offered by the driver.
FInit ==
    /\ \E i \in BOOLEAN, e \in SUBSET FSources :
           fConf = [invert_weights |-> i, expects |-> e]
    /\ \E K \in SUBSET FSources :
           \E f \in FilterPackets, p \in SourcePackets, q \in SourcePackets :
               fInputs = [src \in K |->
                             IF src = FFilter THEN f
                             ELSE IF src = "src1" THEN p ELSE q]
    /\ fBaseCalls = <<>>
    /\ fOut = GOutcome("idle", "none", EmptyData, EmptyData)

\* output = filtered.call(inputs)
FCall ==
    /\ LET r == FilteredT_call(fInputs, fConf)
       IN  /\ fInputs' = r.inputs
           /\ fBaseCalls' = r.calls
           /\ fOut' = GOutcome("done", r.err, r.out, fInputs)
    /\ UNCHANGED fConf
    /\ UNCHANGED <<symVars, msVars, pktVars, gVars, rVars>>

FNext == FCall

(***************************************************************************)
(* FilteringRelay: computes gate and filter weights from commands.         *)
(***************************************************************************)
\* Longest vals tuple offered to Interface, and the values it is drawn from.
MaxVals == 3
ValPool == {"a", "b", "c"}
RTags == <<"t1", "t2">>
RClients == {"c1", "c2", "c3"}

\* The controller (subsystem, terminus) pair of the relay.
RController == <<"ctl", "term">>

\* A mapping entry: one client Symbol, or a set of client Symbols.
EntrySymbol(c) == [isSymbol |-> TRUE, members |-> {c}]
EntrySet(cs) == [isSymbol |-> FALSE, members |-> cs]

\* The mappings offered to Interface: a single client, a client and a group,
\* a group sharing a member with a single client, and an empty group.
RMappings ==
    { [t \in {"t1"} |-> EntrySymbol("c1")],
      [t \in {"t1", "t2"} |->
          IF t = "t1" THEN EntrySymbol("c1") ELSE EntrySet({"c2", "c3"})],
      [t \in {"t1", "t2"} |->
          IF t = "t1" THEN EntrySet({"c1", "c2"}) ELSE EntrySymbol("c2")],
      [t \in {"t1"} |-> EntrySet({})] }

RVals == UNION {[1..n -> ValPool] : n \in 0..MaxVals}

SeqRange(seq) == {seq[k] : k \in 1..Len(seq)}

\* Interface._validate_data: at least two unique values, or ValueError.
Interface_validate_data(vals) ==
    IF Cardinality(SeqRange(vals)) < 2 THEN "ValueError" ELSE "none"

\* Interface construction; a failed one leaves no interface behind.
Interface_new(mapping, vals) ==
    LET err == Interface_validate_data(vals)
    IN  [built |-> err = "none",
         err |-> err,
         mapping |-> IF err = "none" THEN mapping ELSE EmptyData,
         vals |-> IF err = "none" THEN vals ELSE <<>>]

\* Interface._set_interface_properties: the default value of every tag.
Interface_default(iface) == iface.vals[1]

\* FeatureInterface.dims: one (tag, lag) key per tag, in a fixed order.
Interface_dims(iface) ==
    SelectSeq([k \in 1..Len(RTags) |-> <<RTags[k], 0>>],
              LAMBDA dim : dim[1] \in DOMAIN iface.mapping)

\* utils.funcs.collect_cmd_data: the command data the controller's terminus
\* put out for this relay.
collect_cmd_data(inputs, controller) == inputs[controller[1]][controller[2]]

\* FeatureInterface.parse_commands: one command per dimension, the default
\* where the data name none.
parse_commands(iface, data) ==
    [dim \in SeqRange(Interface_dims(iface)) |->
        IF dim[1] \in DOMAIN data THEN data[dim[1]] ELSE Interface_default(iface)]

\* tuple.index: 0-based position of the first occurrence, -1 for ValueError.
tuple_index(seq, x) ==
    IF x \notin SeqRange(seq) THEN -1
    ELSE (CHOOSE k \in 1..Len(seq) :
              seq[k] = x /\ \A j \in 1..(k - 1) : seq[j] # x) - 1

\* strength = i / (n - 1), kept as an exact fraction.
Strength(i, n) == [num |-> i, den |-> n - 1]

\* d[client] = strength for every client of the set, whatever the order.
RAssign(d, clients, strength) ==
    [c \in DOMAIN d \cup clients |-> IF c \in clients THEN strength ELSE d[c]]

RResult(err, out, assigned) == [err |-> err, out |-> out, assigned |-> assigned]

\* The loop of FilteringRelay.call from the k-th dimension on; assigned
\* collects every assignment made, d is the dictionary being filled.
RECURSIVE FilteringRelay_loop(_, _, _, _, _)
FilteringRelay_loop(iface, cmds, k, d, assigned) ==
    LET dims == Interface_dims(iface)
    IN  IF k > Len(dims) THEN RResult("none", d, assigned)
        ELSE LET dim == dims[k]
                 cmd == cmds[dim]
                 tag == dim[1]
                 i == tuple_index(iface.vals, cmd)
                 n == Len(iface.vals)
                 strength == Strength(i, n)
                 entry == iface.mapping[tag]
             IN  IF i < 0 THEN RResult("ValueError", EmptyData, assigned)
                 ELSE FilteringRelay_loop(
                          iface, cmds, k + 1,
                          RAssign(d, entry.members, strength),
                          assigned \cup
                              {[tag |-> tag, client |-> c, strength |-> strength] :
                                  c \in entry.members})

\* FilteringRelay.call
FilteringRelay_call(iface, inputs) ==
    LET data == collect_cmd_data(inputs, RController)
        cmds == parse_commands(iface, data)
        r == FilteringRelay_loop(iface, cmds, 1, EmptyData, {})
    IN  [err |-> r.err, out |-> r.out, assigned |-> r.assigned, cmds |-> cmds]

NoInterface == [built |-> FALSE, mapping |-> EmptyData, vals |-> <<>>]

ROutcome(op, err, out, assigned, cmds) ==
    [op |-> op, err |-> err, out |-> out, assigned |-> assigned, cmds |-> cmds]

\* No relay yet.
RInit ==
    /\ rConf = NoInterface
    /\ rOut = ROutcome("idle", "none", EmptyData, {}, EmptyData)

\* relay = FilteringRelay(controller, Interface(mapping=mapping, vals=vals))
RNew(mapping, vals) ==
    /\ LET r == Interface_new(mapping, vals)
       IN  /\ rConf' = [built |-> r.built, mapping |-> r.mapping, vals |-> r.vals]
           /\ rOut' = ROutcome("new", r.err, EmptyData, {}, EmptyData)
    /\ UNCHANGED <<symVars, msVars, pktVars, gVars, fVars>>

\* d = relay.call(inputs), the controller naming a command for some tags.
RCall(data) ==
    /\ rConf.built
    /\ LET inputs == [s \in {RController[1]} |->
                         [t \in {RController[2]} |-> data]]
           r == FilteringRelay_call(rConf, inputs)
       IN  rOut' = ROutcome("call", r.err, r.out, r.assigned, r.cmds)
    /\ UNCHANGED rConf
    /\ UNCHANGED <<symVars, msVars, pktVars, gVars, fVars>>

RNewAny == \E mapping \in RMappings, vals \in RVals : RNew(mapping, vals)

RCallAny ==
    \E T \in SUBSET DOMAIN rConf.mapping :
        \E data \in [T -> SeqRange(rConf.vals)] : RCall(data)

RNext == RNewAny \/ RCallAny

(***************************************************************************)
(* Specifications.  Each drives one component; the others stay idle.       *)
(***************************************************************************)
SymIdle ==
    /\ symEnv = [n \in SymNames |-> Unbound]
    /\ symBorn = [n \in SymNames |-> Unbound]
    /\ symLast = SymOp("idle", "s", NoArg, <<>>, "", "none", "None")

MsIdle ==
    /\ names = [n \in MsNames |-> Undefined]
    /\ objs = <<>>
    /\ sets = <<>>
    /\ msLast = MsOp("idle", "m", Unbound, FALSE, "none")

PktIdle ==
    /\ pkt = EmptyData
    /\ pktKind = "idle"
    /\ pktCalls = 0
    /\ pktLast = PktOp("idle", "n1", "none", 0, FALSE, EmptyData, 0)

GIdle ==
    /\ gInputs = EmptyData
    /\ gConf = [tfm |-> "eye", expects |-> {}]
    /\ gBaseCalls = <<>>
    /\ gOut = GOutcome("idle", "none", EmptyData, EmptyData)

FIdle ==
    /\ fInputs = EmptyData
    /\ fConf = [invert_weights |-> TRUE, expects |-> {}]
    /\ fBaseCalls = <<>>
    /\ fOut = GOutcome("idle", "none", EmptyData, EmptyData)

RIdle == RInit

InitSymbol == SymInit /\ MsIdle /\ PktIdle /\ GIdle /\ FIdle /\ RIdle
InitMatchSet == MsInit /\ SymIdle /\ PktIdle /\ GIdle /\ FIdle /\ RIdle
InitPacket == PktInit /\ SymIdle /\ MsIdle /\ GIdle /\ FIdle /\ RIdle
InitGatedA == GInit /\ SymIdle /\ MsIdle /\ PktIdle /\ FIdle /\ RIdle
InitFilteredT == FInit /\ SymIdle /\ MsIdle /\ PktIdle /\ GIdle /\ RIdle
InitRelay == RInit /\ SymIdle /\ MsIdle /\ PktIdle /\ GIdle /\ FIdle
InitFilters ==
    /\ (GInit /\ FIdle) \/ (FInit /\ GIdle)
    /\ SymIdle /\ MsIdle /\ PktIdle /\ RIdle

SpecSymbol == InitSymbol /\ [][SymNext]_vars
SpecMatchSet == InitMatchSet /\ [][MsNext]_vars
SpecPacket == InitPacket /\ [][PktNext]_vars
SpecGatedA == InitGatedA /\ [][GNext]_vars
SpecFilteredT == InitFilteredT /\ [][FNext]_vars
SpecRelay == InitRelay /\ [][RNext]_vars
FiltersNext == GNext \/ FNext
SpecFilters == InitFilters /\ [][FiltersNext]_vars

(***************************************************************************)
(* Properties of MatchSet (checked under SpecMatchSet).                    *)
(***************************************************************************)
BasicBits ==
    {feature, chunk, flow_in, flow_tb, flow_bt, flow_tt, flow_bb, terminus,
     buffer, subsystem, agent}
HasBit(v, b) == (v \div b) % 2 = 1

\* Every category of ctype is a category of mask.
CtypeWithin(ctype, mask) ==
    \A b \in BasicBits : HasBit(ctype, b) => HasBit(mask, b)
\* ctype and mask share a category.
CtypeIntersects(ctype, mask) ==
    \E b \in BasicBits : HasBit(ctype, b) /\ HasBit(mask, b)

CriteriaOf(o, s, ref) ==
    [ctype |-> o[ref].ctype, constructs |-> s[o[ref].constructs],
     predicates |-> s[o[ref].predicates]]
AcceptedOf(o, s, ref) ==
    {k \in MsKeys : MatchSet_contains(Heap(o, s), ref, k)}

C2_AugmentedAssignKeepsMatchSet ==
    [][LET a == CriteriaOf(objs, sets, names["m"].ref)
           b == CriteriaOf(objs, sets, names["other"].ref)
       IN  /\ msLast'.op = "ior" =>
                 /\ msLast'.err = "none"
                 /\ names'["m"].kind = "obj"
                 /\ CriteriaOf(objs', sets', names'["m"].ref) =
                        [ctype |-> FlagOr(a.ctype, b.ctype),
                         constructs |-> a.constructs \cup b.constructs,
                         predicates |-> a.predicates \cup b.predicates]
           /\ msLast'.op = "isub" =>
                 /\ msLast'.err = "none"
                 /\ names'["m"].kind = "obj"
                 /\ CriteriaOf(objs', sets', names'["m"].ref) =
                        [ctype |-> BitAnd(a.ctype, FlagInvert(b.ctype)),
                         constructs |-> a.constructs \ b.constructs,
                         predicates |-> a.predicates \ b.predicates]]_vars

\* C3: add never turns an accepted Symbol into a rejected one, and remove
\* never turns a rejected Symbol into an accepted one.
C3_AddGrowsRemoveShrinks ==
    [][\A n \in {"m", "c"} :
          /\ (msLast'.op = "add" /\ msLast'.target = n) =>
                 AcceptedOf(objs, sets, names[n].ref)
                     \subseteq AcceptedOf(objs', sets', names[n].ref)
          /\ (msLast'.op = "remove" /\ msLast'.target = n) =>
                 AcceptedOf(objs', sets', names[n].ref)
                     \subseteq AcceptedOf(objs, sets, names[n].ref)]_vars

\* A remove has left its target rejecting some Symbol while holding criteria.
C3_Witness ==
    /\ msLast.op = "remove"
    /\ LET r == names[msLast.target].ref
       IN  /\ AcceptedOf(objs, sets, r) # MsKeys
           /\ objs[r].ctype # null_construct
           /\ sets[objs[r].predicates] # {}

\* C4: a copy accepts what the original accepts when it is made, and an add
\* or remove on either of the two leaves the other's criteria unchanged.
C4_CopyIsIndependent ==
    [][/\ msLast'.op = "copy" =>
              AcceptedOf(objs', sets', names'["c"].ref)
                  = AcceptedOf(objs', sets', names'["m"].ref)
       /\ \A n \in {"m", "c"} :
              (/\ msLast'.op \in {"add", "remove"}
               /\ msLast'.target # n
               /\ names[n].kind = "obj") =>
                  CriteriaOf(objs', sets', names[n].ref)
                      = CriteriaOf(objs, sets, names[n].ref)]_vars

\* The copy has been changed and now differs from the original.
C4_Witness ==
    /\ msLast.op \in {"add", "remove"}
    /\ msLast.target = "c"
    /\ names["m"].kind = "obj"
    /\ CriteriaOf(objs, sets, names["c"].ref).constructs
           # CriteriaOf(objs, sets, names["m"].ref).constructs
    /\ objs[names["c"].ref].ctype # objs[names["m"].ref].ctype

(***************************************************************************)
(* Properties of Symbol (checked under SpecSymbol).                        *)
(***************************************************************************)
\* The ctype argument asks for the feature category: the member, its name,
\* or its bit value.
IsFeatureArg(arg) ==
    \/ arg.kind = "member" /\ arg.num = feature
    \/ arg.kind = "str" /\ arg.name = "feature"
    \/ arg.kind = "int" /\ arg.num = 1

\* C7: constructing a feature Symbol with fewer than two identifier
\* components fails with a type error and binds nothing; with two or more it
\* succeeds, dim is the first component and val the second.
C7_FeatureArity ==
    (symLast.op \in {"init", "feature"} /\ IsFeatureArg(symLast.arg)) =>
        LET d == symEnv[symLast.target]
        IN  IF Len(symLast.cid) < 2
            THEN symLast.err = "TypeError" /\ ~d.bound
            ELSE /\ symLast.err = "none"
                 /\ d.bound
                 /\ d.ctype = feature
                 /\ d.cid = symLast.cid
                 /\ Symbol_dim(d) = [err |-> "none", ret |-> symLast.cid[1]]
                 /\ Symbol_val(d) = [err |-> "none", ret |-> symLast.cid[2]]

\* A feature Symbol was constructed from the name with three components.
C7_Witness ==
    /\ symLast.op = "init"
    /\ symLast.arg.kind = "str" /\ symLast.arg.name = "feature"
    /\ Len(symLast.cid) = 3
    /\ symEnv[symLast.target].bound

\* C8 as stated: on a Symbol whose ctype is not feature, reading dim or val
\* fails with a type error.
C8_DimValOnlyForFeature ==
    (symLast.op \in {"dim", "val"} /\ symEnv[symLast.target].ctype # feature)
        => symLast.err = "TypeError"

C5_DefaultFillIsMemoized ==
    (pktKind = "sub" /\ pktLast.op = "getitem") =>
        IF pktLast.key \notin DOMAIN pktLast.pre
        THEN /\ pktLast.err = "none"
             /\ pktLast.key \in DOMAIN pkt
             /\ pkt[pktLast.key] = pktLast.ret
             /\ DOMAIN pkt = DOMAIN pktLast.pre \cup {pktLast.key}
             /\ \A k \in DOMAIN pktLast.pre : pkt[k] = pktLast.pre[k]
             /\ pktCalls = pktLast.callsBefore + 1
        ELSE /\ pktLast.err = "none"
             /\ pktLast.ret = pktLast.pre[pktLast.key]
             /\ pkt = pktLast.pre
             /\ pktCalls = pktLast.callsBefore

\* An absent key was read from a non-empty packet and a non-zero default stored.
C5_Witness ==
    /\ pktKind = "sub" /\ pktLast.op = "getitem"
    /\ pktLast.key \notin DOMAIN pktLast.pre
    /\ DOMAIN pktLast.pre # {}
    /\ pktLast.ret > 0

\* C6: on a base ActivationPacket, reading an absent key fails with KeyError
\* and leaves the packet as it was, the key still absent.
C6_BaseMissingKeyFails ==
    (/\ pktKind = "base" /\ pktLast.op = "getitem"
     /\ pktLast.key \notin DOMAIN pktLast.pre) =>
        /\ pktLast.err = "KeyError"
        /\ pktLast.key \notin DOMAIN pkt
        /\ pkt = pktLast.pre

\* An absent key was read from a non-empty base packet.
C6_Witness ==
    /\ pktKind = "base" /\ pktLast.op = "getitem"
    /\ pktLast.key \notin DOMAIN pktLast.pre
    /\ DOMAIN pktLast.pre # {}

(***************************************************************************)
(* Properties of GatedA (checked under SpecGatedA).                        *)
(***************************************************************************)
\* C10: when inputs holds the gate's packet with an entry w for the client,
\* call invokes the base exactly once, with exactly the inputs the base
\* expects, and returns the base's output with every value multiplied by
\* w for "eye" and by 1 - w for "inv".
C10_GatedCall ==
    (/\ gOut.state = "done"
     /\ GGate \in DOMAIN gOut.pre
     /\ GClient \in DOMAIN gOut.pre[GGate].data) =>
        LET w == gOut.pre[GGate].data[GClient]
            t == IF gConf.tfm = "eye" THEN w ELSE Den - w
            wanted == {src \in DOMAIN gOut.pre : src \in gConf.expects}
        IN  /\ gOut.err = "none"
            /\ Len(gBaseCalls) = 1
            /\ DOMAIN gBaseCalls[1] = wanted
            /\ \A src \in wanted : gBaseCalls[1][src] = gOut.pre[src]
            /\ DOMAIN gOut.out = DOMAIN base_call(gBaseCalls[1])
            /\ \A n \in DOMAIN gOut.out :
                   gOut.out[n] = base_call(gBaseCalls[1])[n] * t

\* A call with tfm "inv", a gate the base does not expect, a source it does
\* and one it does not, that produced a non-zero output.
C10_Witness ==
    /\ gOut.state = "done" /\ gOut.err = "none"
    /\ gConf.tfm = "inv"
    /\ gConf.expects = {"src1"}
    /\ DOMAIN gOut.pre = GSources
    /\ GClient \in DOMAIN gOut.pre[GGate].data
    /\ \E n \in DOMAIN gOut.out : gOut.out[n] > 0

(***************************************************************************)
(* Properties of FilteredT (checked under SpecFilteredT).                  *)
(***************************************************************************)
\* The weight FilteredT is to apply to the element n, given the filter's
\* weight packet W.
ResolvedWeight(invert, W, n) ==
    IF invert
    THEN IF n \in DOMAIN W THEN Den - W[n] ELSE Den
    ELSE IF n \in DOMAIN W THEN W[n] ELSE 0

\* C12: call forwards to the base only the sources the base expects, each
\* element multiplied by its resolved weight (inverted: 1 - w if the weight
\* packet holds w for it, else 1; not inverted: w if held, else 0), and
\* returns the base's result on those filtered inputs.
C12_FilteredCall ==
    (fOut.state = "done" /\ FFilter \in DOMAIN fOut.pre) =>
        LET W == fOut.pre[FFilter].data
            wanted == {src \in DOMAIN fOut.pre : src \in fConf.expects}
        IN  /\ fOut.err = "none"
            /\ Len(fBaseCalls) = 1
            /\ DOMAIN fBaseCalls[1] = wanted
            /\ \A src \in wanted :
                   /\ DOMAIN fBaseCalls[1][src].data = DOMAIN fOut.pre[src].data
                   /\ \A n \in DOMAIN fOut.pre[src].data :
                          fBaseCalls[1][src].data[n] =
                              fOut.pre[src].data[n]
                                  * ResolvedWeight(fConf.invert_weights, W, n)
            /\ fOut.out = base_call(fBaseCalls[1])

\* An inverting filter holding a weight for x only passed on a source with
\* x and y, next to a source the base does not expect.
C12_Witness ==
    /\ fOut.state = "done" /\ fOut.err = "none"
    /\ fConf.invert_weights
    /\ fConf.expects = {"src1"}
    /\ DOMAIN fOut.pre = FSources
    /\ DOMAIN fOut.pre[FFilter].data = {"x"}
    /\ DOMAIN fOut.pre["src1"].data = GNodes
    /\ fOut.out["y"] > fOut.out["x"]

(***************************************************************************)
(* Frame of the two decorators' call (checked under SpecFilters).          *)
(***************************************************************************)
\* C11: GatedA.call and FilteredT.call never mutate their input: after the
\* call, whether it returned or failed, the inputs mapping has the keys it
\* had and every packet in it, the gate's or filter's included, has the keys
\* and values it had before the call.
C11_CallLeavesInputs ==
    /\ gOut.state = "done" => gInputs = gOut.pre
    /\ fOut.state = "done" => fInputs = fOut.pre

(***************************************************************************)
(* Properties of FilteringRelay (checked under SpecRelay).                 *)
(***************************************************************************)
\* The client Symbols reachable from the interface's mapping.
MappedClients(iface) ==
    UNION {iface.mapping[t].members : t \in DOMAIN iface.mapping}

\* C13: for every Interface that passed construction and every position i
\* of vals, when the parsed command of a dimension is the i-th value, call
\* assigns the weight i / (len(vals) - 1) to every client mapped from the
\* dimension's tag (each member of a group), so that the first value gives
\* 0 and the last gives 1; the output's keys are exactly the clients
\* reachable from the mapping.  Positions are counted from 0 as in the
\* source, so vals[i + 1] here is the i-th value.
C13_RelayWeights ==
    (rOut.op = "call" /\ rConf.built) =>
        LET n == Len(rConf.vals)
        IN  /\ rOut.err = "none"
            /\ \A t \in DOMAIN rConf.mapping : \A i \in 0..(n - 1) :
                   rOut.cmds[<<t, 0>>] = rConf.vals[i + 1] =>
                       \A c \in rConf.mapping[t].members :
                           \E a \in rOut.assigned :
                               /\ a.tag = t /\ a.client = c
                               /\ a.strength.num * (n - 1) = i * a.strength.den
            /\ DOMAIN rOut.out = MappedClients(rConf)

====
